---- MODULE Spec2Model ----
(***************************************************************************)
(* Model of src/powerstore_service.py: main() reads file_systems.csv with  *)
(* csv.DictReader and calls create_filesystem() once per record, printing  *)
(* a Pending line and then a Completed or Error line for each record.      *)
(*                                                                         *)
(* A Python string is a sequence of one-character tokens (a name that is   *)
(* never parsed is a single opaque token); Python's None is NoneCell.      *)
(***************************************************************************)
EXTENDS Integers, Sequences, FiniteSets, TLC

VARIABLES pc, file, filesystems, total, index, out, calls, posts, replies, arg, ret

vars == <<pc, file, filesystems, total, index, out, calls, posts, replies, arg, ret>>

(* ------------------------------ bounds --------------------------------- *)

MaxRows == 2

MaxLen == 2

(* --------------------------- Python strings ---------------------------- *)

NoneCell == <<"<None>">>

Alphabet == {" ", "7", "-", "x"}

DigitChars == {"0", "1", "2", "3", "4", "5", "6", "7", "8", "9"}

DigitVal(c) ==
  CASE c = "0" -> 0 [] c = "1" -> 1 [] c = "2" -> 2 [] c = "3" -> 3
    [] c = "4" -> 4 [] c = "5" -> 5 [] c = "6" -> 6 [] c = "7" -> 7
    [] c = "8" -> 8 [] c = "9" -> 9

IsSpace(c) == c = " "

RECURSIVE LStrip(_)
LStrip(s) == IF s # <<>> /\ IsSpace(Head(s)) THEN LStrip(Tail(s)) ELSE s

RECURSIVE RStrip(_)
RStrip(s) ==
  IF s # <<>> /\ IsSpace(s[Len(s)]) THEN RStrip(SubSeq(s, 1, Len(s) - 1)) ELSE s

\* str.strip() with no argument
Strip(s) == RStrip(LStrip(s))

Unsigned(t) == IF t # <<>> /\ Head(t) \in {"-", "+"} THEN Tail(t) ELSE t

RECURSIVE DigitsValue(_)
DigitsValue(d) ==
  IF d = <<>> THEN 0
  ELSE 10 * DigitsValue(SubSeq(d, 1, Len(d) - 1)) + DigitVal(d[Len(d)])

\* does int(s) accept the string s
IntLiteral(s) ==
  LET d == Unsigned(Strip(s))
  IN  d # <<>> /\ \A i \in 1..Len(d) : d[i] \in DigitChars

\* the value of int(s) for a string int() accepts
IntValue(s) ==
  LET t == Strip(s)
      v == DigitsValue(Unsigned(t))
  IN  IF Head(t) = "-" THEN 0 - v ELSE v

(* ------------------------- create_filesystem --------------------------- *)

NoExc == [type |-> "", text |-> <<>>]

NoPayload == [none |-> 0]

Raise(type, text) == [ok |-> FALSE, payload |-> NoPayload, exc |-> [type |-> type, text |-> text]]

Built(p) == [ok |-> TRUE, payload |-> p, exc |-> NoExc]

\* int(filesystem[k]) for a key k the row has
PyInt(cell) ==
  IF cell = NoneCell THEN Raise("TypeError", <<"int() argument must be a string", "NoneType">>)
  ELSE IF ~IntLiteral(cell) THEN Raise("ValueError", <<"invalid literal for int() with base 10">>)
  ELSE [ok |-> TRUE, payload |-> IntValue(cell), exc |-> NoExc]

PayloadKeys == <<"NAS_Name", "NAS_IP", "FileSystemName", "Size", "Protocol">>

\* the first key of the dict display of lines 19-25 the row lacks, 0 if none
RECURSIVE FirstMissing(_, _)
FirstMissing(fs, i) ==
  IF i > Len(PayloadKeys) THEN 0
  ELSE IF PayloadKeys[i] \notin DOMAIN fs THEN i
  ELSE FirstMissing(fs, i + 1)

QuotaProvidedNoStrip(q) == q # <<>>

\* the test of line 27, for a Quota that is a string
QuotaProvided(q) == Strip(q) # <<>>

\* lines 19-28: the payload, or the exception raised while building it
BuildPayload(fs) ==
  LET m == FirstMissing(fs, 1)
      sizeAt == 4
  IN
  IF m # 0 /\ m <= sizeAt THEN Raise("KeyError", <<PayloadKeys[m]>>)
  ELSE IF ~PyInt(fs["Size"]).ok THEN PyInt(fs["Size"])
  ELSE IF m # 0 THEN Raise("KeyError", <<PayloadKeys[m]>>)
  ELSE
    LET base == [NAS_Name |-> fs["NAS_Name"], NAS_IP |-> fs["NAS_IP"],
                 FileSystemName |-> fs["FileSystemName"],
                 Size |-> PyInt(fs["Size"]).payload,
                 Protocol |-> fs["Protocol"]]
    IN
    IF "Quota" \notin DOMAIN fs THEN Raise("KeyError", <<"Quota">>)
    ELSE IF fs["Quota"] = NoneCell
      THEN Raise("AttributeError", <<"NoneType", "has no attribute", "strip">>)
    ELSE IF ~QuotaProvided(fs["Quota"]) THEN Built(base)
    ELSE IF ~PyInt(fs["Quota"]).ok THEN PyInt(fs["Quota"])
    ELSE Built([Quota |-> PyInt(fs["Quota"]).payload] @@ base)

(* ------------------------------ the CSV -------------------------------- *)

FullHeader == <<"NAS_Name", "NAS_IP", "FileSystemName", "Size", "Protocol", "Quota">>

Range(s) == {s[i] : i \in 1..Len(s)}

WithoutColumn(c) == SelectSeq(FullHeader, LAMBDA k : k # c)

\* the header lines the input may have: all six columns, or one of them absent
Headers == {FullHeader} \cup {WithoutColumn(c) : c \in Range(FullHeader)}

GoodSize == <<"1", "0">>

\* a line of the file: blank, complete (Quota empty, an integer or not a
\* number; or Size not a number), or one value short
LineKinds ==
  {[shape |-> "blank", size |-> <<>>, quota |-> <<>>],
   [shape |-> "full", size |-> GoodSize, quota |-> <<>>],
   [shape |-> "full", size |-> GoodSize, quota |-> <<"5">>],
   [shape |-> "full", size |-> GoodSize, quota |-> <<"x">>],
   [shape |-> "full", size |-> <<"x">>, quota |-> <<>>],
   [shape |-> "short", size |-> GoodSize, quota |-> <<>>]}

CellOf(col, kind, pos) ==
  CASE col = "NAS_Name" -> <<"nas1">>
    [] col = "NAS_IP" -> <<"10.0.0.1">>
    [] col = "FileSystemName" -> <<"fs", ToString(pos)>>
    [] col = "Size" -> kind.size
    [] col = "Protocol" -> <<"NFS">>
    [] col = "Quota" -> kind.quota

\* the values csv.reader yields for the line at position pos
RawRow(header, kind, pos) ==
  LET n == CASE kind.shape = "blank" -> 0
             [] kind.shape = "short" -> Len(header) - 1
             [] OTHER -> Len(header)
  IN  [i \in 1..n |-> CellOf(header[i], kind, pos)]

Files ==
  {[state |-> st, header |-> <<>>, rows |-> <<>>] : st \in {"missing", "unreadable"}}
  \cup
  {[state |-> "ok", header |-> h, rows |-> [i \in 1..Len(ks) |-> RawRow(h, ks[i], i)]] :
     h \in Headers, ks \in UNION {[1..n -> LineKinds] : n \in 0..MaxRows}}

\* csv.DictReader: blank lines are skipped, a short line gets None (restval)
\* for the columns it has no value for
DictRow(header, row) ==
  [k \in Range(header) |->
     LET i == CHOOSE j \in 1..Len(header) : header[j] = k
     IN  IF i <= Len(row) THEN row[i] ELSE NoneCell]

DictReader(header, rows) ==
  LET kept == SelectSeq(rows, LAMBDA r : r # <<>>)
  IN  [i \in 1..Len(kept) |-> DictRow(header, kept[i])]

(* --------------------------- the HTTP exchange ------------------------- *)

Url == "https://<ps_ip>/api/v1/filesystems"

Statuses == {101, 200, 304, 404, 500}

JsonBody == "{\"id\": 1}"

TextBody == "<html>unavailable</html>"

Bodies == {"", JsonBody, TextBody}

\* what requests.post can do: return a response, or raise
Outcomes ==
  {[raised |-> TRUE, status |-> 0, body |-> ""]}
  \cup [raised : {FALSE}, status : Statuses, body : Bodies]

Reason(status) ==
  CASE status = 101 -> "Switching Protocols"
    [] status = 200 -> "OK"
    [] status = 304 -> "Not Modified"
    [] status = 404 -> "Not Found"
    [] status = 500 -> "Internal Server Error"
    [] OTHER -> "Unknown"

\* Response.raise_for_status(): the HTTPError it raises, NoExc if it returns
RaiseForStatus(resp) ==
  IF 400 <= resp.status /\ resp.status < 500
    THEN [type |-> "HTTPError",
          text |-> <<ToString(resp.status), "Client Error", Reason(resp.status), "for url", Url>>]
  ELSE IF 500 <= resp.status /\ resp.status < 600
    THEN [type |-> "HTTPError",
          text |-> <<ToString(resp.status), "Server Error", Reason(resp.status), "for url", Url>>]
  ELSE NoExc

\* Response.json(): the decoded body, or the JSONDecodeError
IsJson(body) == body = JsonBody

\* lines 31-33 once requests.post has come back with outcome o
AfterPost(o) ==
  IF o.raised THEN Raise("ConnectionError", <<"Max retries exceeded with url", Url>>)
  ELSE IF RaiseForStatus(o) # NoExc
    THEN [ok |-> FALSE, payload |-> NoPayload, exc |-> RaiseForStatus(o)]
  ELSE IF ~IsJson(o.body)
    THEN Raise("JSONDecodeError", <<"Expecting value", "line 1 column 1 (char 0)">>)
  ELSE [ok |-> TRUE, payload |-> <<o.body>>, exc |-> NoExc]

(* -------------------------------- main --------------------------------- *)

Line(kind, i, n, name, detail) ==
  [kind |-> kind, index |-> i, total |-> n, name |-> name, detail |-> detail]

NoFile == [state |-> "none", header |-> <<>>, rows |-> <<>>]

NoRet == [ok |-> FALSE, payload |-> NoPayload, exc |-> NoExc]

Init ==
  /\ file \in Files
  /\ pc = "start"
  /\ filesystems = <<>>
  /\ total = 0
  /\ index = 0
  /\ out = <<>>
  /\ calls = <<>>
  /\ posts = <<>>
  /\ replies = <<>>
  /\ arg = <<>>
  /\ ret = NoRet

FileNotFoundUncaught == "crashed"

\* where main() goes from the except clause of lines 47-49
OnFileNotFound == "done"

\* lines 43-49, the file does not exist
LoadMissing ==
  /\ pc = "start"
  /\ file.state = "missing"
  /\ out' = Append(out, Line("NotFound", 0, 0, <<>>, [type |-> "", text |-> <<"file_systems.csv">>]))
  /\ pc' = OnFileNotFound
  /\ UNCHANGED <<file, filesystems, total, index, calls, posts, replies, arg, ret>>

\* lines 43-46, open() raises an OSError other than FileNotFoundError
LoadUnreadable ==
  /\ pc = "start"
  /\ file.state = "unreadable"
  /\ pc' = "crashed"
  /\ UNCHANGED <<file, filesystems, total, index, out, calls, posts, replies, arg, ret>>

\* lines 43-52, the file is read
LoadCsv ==
  /\ pc = "start"
  /\ file.state = "ok"
  /\ filesystems' = DictReader(file.header, file.rows)
  /\ total' = Len(filesystems')
  /\ out' = Append(out, Line("Starting", 0, total', <<>>, NoExc))
  /\ index' = 1
  /\ pc' = "loop"
  /\ UNCHANGED <<file, calls, posts, replies, arg, ret>>

NextIndexSkipping(i) == i + 2

\* enumerate(filesystems, start=1) moving to the next record
NextIndex(i) == i + 1

\* line 55, the records are exhausted and main() returns
LoopExit ==
  /\ pc = "loop"
  /\ index > total
  /\ pc' = "done"
  /\ UNCHANGED <<file, filesystems, total, index, out, calls, posts, replies, arg, ret>>

\* lines 55-57, the next record is taken and announced
LoopPending ==
  /\ pc = "loop"
  /\ index <= total
  /\ IF "FileSystemName" \in DOMAIN filesystems[index]
       THEN /\ out' = Append(out, Line("Pending", index, total,
                                        filesystems[index]["FileSystemName"], NoExc))
            /\ pc' = "create"
       ELSE /\ pc' = "crashed"
            /\ out' = out
  /\ UNCHANGED <<file, filesystems, total, index, calls, posts, replies, arg, ret>>

CreateExceptionUncaught == "crashed"

\* where main() goes from the except clause of lines 61-62
OnCreateException == "loop"

SendTwice(log, req) == Append(Append(log, req), req)

\* line 31, requests.post puts one request on the wire
Send(log, req) == Append(log, req)

\* lines 58-59 and 19-31: the payload is built and posted, or building it
\* raises and line 62 reports the record
CreateCall ==
  /\ pc = "create"
  /\ calls' = Append(calls, [index |-> index, fs |-> filesystems[index], at |-> Len(out)])
  /\ LET b == BuildPayload(filesystems[index])
     IN  IF b.ok
           THEN /\ posts' = Send(posts, [index |-> index, url |-> Url, payload |-> b.payload])
                /\ pc' = "posting"
                /\ UNCHANGED <<out, index>>
           ELSE /\ out' = Append(out, Line("Error", index, total,
                                           filesystems[index]["FileSystemName"], b.exc))
                /\ index' = NextIndex(index)
                /\ pc' = OnCreateException
                /\ posts' = posts
  /\ UNCHANGED <<file, filesystems, total, replies, arg, ret>>

\* lines 31-33 and 60-62: the call comes back and the record is reported
CreateReturn ==
  /\ pc = "posting"
  /\ \E o \in Outcomes :
       LET r == AfterPost(o)
       IN  /\ replies' = Append(replies, [index |-> index, status |-> o.status,
                                         body |-> o.body, raised |-> o.raised])
           /\ IF r.ok
               THEN /\ out' = Append(out, Line("Completed", index, total,
                                               filesystems[index]["FileSystemName"],
                                               [type |-> "", text |-> r.payload]))
                    /\ pc' = "loop"
               ELSE /\ out' = Append(out, Line("Error", index, total,
                                               filesystems[index]["FileSystemName"], r.exc))
                    /\ pc' = OnCreateException
  /\ index' = NextIndex(index)
  /\ UNCHANGED <<file, filesystems, total, calls, posts, arg, ret>>

Next ==
  \/ LoadMissing
  \/ LoadUnreadable
  \/ LoadCsv
  \/ LoopExit
  \/ LoopPending
  \/ CreateCall
  \/ CreateReturn

Spec == Init /\ [][Next]_vars

\* main() is sequential and every HTTP call returns or raises
FairSpec == Spec /\ WF_vars(Next)

TypeOK ==
  /\ pc \in {"start", "loop", "create", "posting", "done", "crashed"}
  /\ index \in 0..(MaxRows + 1)
  /\ total \in 0..MaxRows

(* ------------- create_filesystem's payload, taken on its own ----------- *)

Strings == UNION {[1..n -> Alphabet] : n \in 0..MaxLen}

\* the records DictReader can hand to create_filesystem
PayloadArgs ==
  {[k \in Range(h) |->
      CASE k = "Size" -> size [] k = "Quota" -> quota
        [] OTHER -> CellOf(k, [size |-> size, quota |-> quota], 1)] :
     h \in Headers, size \in Strings, quota \in Strings \cup {NoneCell}}

PayloadInit ==
  /\ pc = "idle"
  /\ file = NoFile
  /\ filesystems = <<>>
  /\ total = 0
  /\ index = 0
  /\ out = <<>>
  /\ calls = <<>>
  /\ posts = <<>>
  /\ replies = <<>>
  /\ arg \in PayloadArgs
  /\ ret = NoRet

\* lines 19-28 run on the record arg
PayloadCall ==
  /\ pc = "idle"
  /\ ret' = BuildPayload(arg)
  /\ pc' = "built"
  /\ UNCHANGED <<file, filesystems, total, index, out, calls, posts, replies, arg>>

PayloadNext == PayloadCall

PayloadSpec == PayloadInit /\ [][PayloadNext]_vars

(* ------------------------------ properties ----------------------------- *)

Terminated == pc \in {"done", "crashed"}

\* the Pending, Completed and Error lines printed so far, in order
RowLines == SelectSeq(out, LAMBDA l : l.kind \in {"Pending", "Completed", "Error"})

IsPending(l, k) == l.kind = "Pending" /\ l.index = k /\ l.total = total

IsOutcome(l, k) == l.kind \in {"Completed", "Error"} /\ l.index = k /\ l.total = total

\* record k has its Pending line, directly followed by its Completed or Error line
Reported(k) ==
  \E j \in 1..(Len(RowLines) - 1) : IsPending(RowLines[j], k) /\ IsOutcome(RowLines[j + 1], k)

Attempted(k) == \E c \in 1..Len(calls) : calls[c].index = k

FailedAt(i) == \E j \in 1..Len(RowLines) : RowLines[j].kind = "Error" /\ RowLines[j].index = i

OutcomeKind(k) ==
  LET j == CHOOSE n \in 1..Len(RowLines) : RowLines[n].kind # "Pending" /\ RowLines[n].index = k
  IN  RowLines[j].kind

OutcomeLine(k) ==
  RowLines[CHOOSE n \in 1..Len(RowLines) : RowLines[n].kind # "Pending" /\ RowLines[n].index = k]

HasOutcome(k) == \E n \in 1..Len(RowLines) : RowLines[n].kind # "Pending" /\ RowLines[n].index = k

PostsFor(k) == {j \in 1..Len(posts) : posts[j].index = k}

\* C1: once the create step of some record has failed, the run goes on to
\* its end and every later record is attempted and reported.
C1_FailureIsolated ==
  (\E i \in 1..total : FailedAt(i))
    ~> (/\ pc = "done"
        /\ \A i \in 1..total : FailedAt(i) =>
             \A k \in (i + 1)..total : Attempted(k) /\ Reported(k))

C1_Witness ==
  /\ pc = "done"
  /\ total >= 2
  /\ FailedAt(1)
  /\ \E r \in 1..Len(replies) : replies[r].index = 1
  /\ Reported(2)

\* the values of a record are the ones the specification calls valid
ValidValues(fs) ==
  /\ \A k \in DOMAIN fs : fs[k] # NoneCell
  /\ "Size" \in DOMAIN fs /\ IntLiteral(fs["Size"])
  /\ "Quota" \in DOMAIN fs /\ (Strip(fs["Quota"]) = <<>> \/ IntLiteral(fs["Quota"]))

SpecColumns == {"NAS_Name", "FileSystemName", "Size", "Protocol", "Quota"}

ValidInput(columns) ==
  /\ file.state = "ok"
  /\ columns \subseteq Range(file.header)
  /\ \A k \in 1..Len(filesystems) : ValidValues(filesystems[k])

\* C2 as stated: a file with the columns NAS_Name, FileSystemName, Size,
\* Protocol, Quota and N valid rows gets exactly N POSTs.
C2_AsStated ==
  (Terminated /\ ValidInput(SpecColumns)) => Len(posts) = total

\* C2: a file that also has the NAS_IP column, with N valid rows, gets
\* exactly N POSTs, one per row in order, and the run returns.
C2_ExactlyN ==
  (Terminated /\ ValidInput(SpecColumns \cup {"NAS_IP"})) =>
     /\ pc = "done"
     /\ Len(posts) = total
     /\ \A k \in 1..total : posts[k].index = k

C2_Witness ==
  /\ pc = "done"
  /\ ValidInput(SpecColumns \cup {"NAS_IP"})
  /\ total >= 2
  /\ Len(posts) = total
  /\ \E r \in 1..Len(replies) : replies[r].status = 500

\* C3: at the end of a run over N loaded records the row lines are
\* Pending(1), T(1), ..., Pending(N), T(N) and the k-th call to
\* create_filesystem takes record k between Pending(k) and T(k).
C3_AsStated ==
  (Terminated /\ file.state = "ok") =>
     /\ Len(RowLines) = 2 * total
     /\ \A k \in 1..total :
          /\ IsPending(RowLines[2 * k - 1], k)
          /\ IsOutcome(RowLines[2 * k], k)
     /\ Len(calls) = total
     /\ \A k \in 1..total :
          /\ calls[k].index = k
          /\ calls[k].fs = filesystems[k]
          /\ calls[k].at = 2 * k

\* C4: a reply with a status in 200..299 is reported Completed, any other
\* reply or a transport exception is reported Error, whatever the body.
C4_AsStated ==
  \A r \in 1..Len(replies) :
    LET rp == replies[r]
        success == ~rp.raised /\ 200 <= rp.status /\ rp.status <= 299
    IN  /\ HasOutcome(rp.index)
        /\ OutcomeKind(rp.index) = (IF success THEN "Completed" ELSE "Error")

\* C5: with the input file missing the run prints the not-found message
\* and returns, with no row line, no call and no request.
C5_MissingFileAborts ==
  (file.state = "missing" /\ pc # "start") =>
     /\ pc = "done"
     /\ Len(out) = 1 /\ out[1].kind = "NotFound"
     /\ calls = <<>>
     /\ posts = <<>>
     /\ replies = <<>>

C5_Witness == file.state = "missing" /\ pc = "done" /\ Len(out) = 1

HasAllKeys(fs) == Range(FullHeader) \subseteq DOMAIN fs

BaseFieldsOf(fs, p) ==
  /\ p["NAS_Name"] = fs["NAS_Name"]
  /\ p["NAS_IP"] = fs["NAS_IP"]
  /\ p["FileSystemName"] = fs["FileSystemName"]
  /\ p["Size"] = IntValue(fs["Size"])
  /\ p["Protocol"] = fs["Protocol"]

\* C6: for a record with an integer Size, a Quota that strips to the empty
\* string gives a payload without the Quota key, an integer Quota gives a
\* payload whose Quota is that integer, and the other five fields are the
\* record's in both cases.
C6_QuotaField ==
  (pc = "built" /\ HasAllKeys(arg) /\ IntLiteral(arg["Size"]) /\ arg["Quota"] # NoneCell) =>
     IF Strip(arg["Quota"]) = <<>>
       THEN /\ ret.ok
            /\ DOMAIN ret.payload = Range(PayloadKeys)
            /\ BaseFieldsOf(arg, ret.payload)
     ELSE IF IntLiteral(arg["Quota"])
       THEN /\ ret.ok
            /\ DOMAIN ret.payload = Range(PayloadKeys) \cup {"Quota"}
            /\ ret.payload["Quota"] = IntValue(arg["Quota"])
            /\ BaseFieldsOf(arg, ret.payload)
     ELSE TRUE

C6_Witness ==
  /\ pc = "built"
  /\ HasAllKeys(arg)
  /\ arg["Size"] = <<"7">>
  /\ arg["Quota"] = <<" ", " ">>
  /\ ret.ok
  /\ "Quota" \notin DOMAIN ret.payload

\* C7: unless the input file is missing, the run is never cut short: it
\* returns from main() with every record reported.
C7_AsStated ==
  file.state # "missing" =>
     /\ pc # "crashed"
     /\ pc = "done" => \A k \in 1..total : Reported(k)

Contains(text, body) == body = "" \/ \E i \in 1..Len(text) : text[i] = body

\* C8: the Error line of a record whose POST came back with an error
\* status contains the body of that response.
C8_AsStated ==
  \A r \in 1..Len(replies) :
    LET rp == replies[r]
    IN  (~rp.raised /\ 400 <= rp.status /\ rp.status <= 599) =>
          /\ HasOutcome(rp.index)
          /\ OutcomeKind(rp.index) = "Error"
          /\ Contains(OutcomeLine(rp.index).detail.text, rp.body)

\* C9: no record is posted more than once, whatever came back for it, so
\* a run never issues more than N POSTs.
C9_SingleAttempt ==
  /\ Len(posts) <= total
  /\ \A k \in 1..total : Cardinality(PostsFor(k)) <= 1
  /\ \A j \in 1..Len(posts) : posts[j].index \in 1..total /\ posts[j].index <= index
  /\ Len(replies) <= Len(posts)

C9_Witness ==
  /\ pc = "done"
  /\ total >= 2
  /\ Cardinality(PostsFor(1)) = 1
  /\ FailedAt(1)
  /\ \E r \in 1..Len(replies) : replies[r].index = 1 /\ replies[r].raised
  /\ Cardinality(PostsFor(2)) = 1

\* a record create_filesystem cannot turn into a payload
NoPayloadFor(fs) ==
  \/ ~HasAllKeys(fs)
  \/ fs["Size"] = NoneCell \/ ~IntLiteral(fs["Size"])
  \/ fs["Quota"] = NoneCell
  \/ (Strip(fs["Quota"]) # <<>> /\ ~IntLiteral(fs["Quota"]))

\* C10: a record that cannot be turned into a payload gets no HTTP
\* request and is reported Error.
C10_AsStated ==
  Terminated =>
    \A k \in 1..total :
      NoPayloadFor(filesystems[k]) =>
        /\ PostsFor(k) = {}
        /\ HasOutcome(k) /\ OutcomeKind(k) = "Error"

====
